---- MODULE Spec2Model ----
(***************************************************************************)
(* A model of the AI recruiter helper chatbot: the application tracker     *)
(* (modules/application_tracker.py), the company researcher                *)
(* (modules/company_research.py), the job searcher (modules/job_search.py),*)
(* the chat router (modules/chat_interface.py) and the Streamlit shell     *)
(* (app.py).                                                               *)
(***************************************************************************)
EXTENDS Integers, Sequences, FiniteSets, TLC

VARIABLES
    applications,   \* ApplicationTracker.applications, the in-memory list
    db_file,        \* the contents of data/applications.json
    now,            \* the value datetime.now() returns, a logical clock
    last,           \* the last tracker call: its name, result and save outcome
    company_cache,  \* CompanyResearcher.company_cache
    research,       \* the research_company call in progress, or the last one
    loop_time,      \* asyncio.get_event_loop().time(), a logical clock
    rlast,          \* the last call on the researcher and what it returned
    session_state,  \* st.session_state: resume_data and messages
    turn,           \* what the last run of the script did
    runs,           \* number of script runs so far
    call            \* the last call observed: function, argument, return value

trackerVars == <<applications, db_file, now, last>>
researchVars == <<company_cache, research, loop_time, rlast>>
appVars == <<session_state, turn, runs>>
vars == <<trackerVars, researchVars, appVars, call>>

(***************************************************************************)
(* Bounds of the model.                                                    *)
(***************************************************************************)
MaxApps == 2        \* longest application list explored
MaxClock == 3       \* number of clock readings explored
MaxFollowUps == 1   \* follow-up notes per application explored
MaxResearch == 3    \* research_company calls that miss the cache explored
MaxRuns == 2        \* runs of the Streamlit script explored
MaxJobs == 3        \* jobs given to _score_and_rank_jobs
MaxBlocks == 2      \* blocks of a completion reply given to _parse_job_listings

(***************************************************************************)
(* Values.                                                                 *)
(***************************************************************************)
NoneVal == "None"               \* Python's None
PyObject == "<object>"          \* a value json.dump cannot serialise
NoneId == 0                     \* an app_id of None: equal to no stored id
Statuses == {"applied", "accepted", "rejected"}

\* str.lower() on the strings of the model
Lower(str) ==
    CASE str = ".DOC" -> ".doc"
      [] str = "Title" -> "title"
      [] str = "Python" -> "python"
      [] str = "Data" -> "data"
      [] OTHER -> str
AppIds == 0 .. (MaxApps + 1)
IoOutcomes == {"ok", "open_error", "write_error"}

\* application_data dictionaries passed to add_application
AppData == { [company |-> NoneVal, notes |-> ""], [company |-> "Acme", notes |-> "call"] }

\* updates dictionaries passed to update_application (dict.update semantics)
NoChanges == [k \in {} |-> NoneVal]
Updates == { NoChanges,
             [status |-> "accepted"],
             [status |-> "rejected"],
             [id |-> 1],
             [notes |-> PyObject] }

(***************************************************************************)
(* The JSON file: json.dump writes one object per application, json.load   *)
(* reads them back.  A file is missing, a JSON array, or partial (opened   *)
(* for writing, truncated, and not completely written).                    *)
(***************************************************************************)
MissingFile == [kind |-> "missing", text |-> <<>>]
PartialFile == [kind |-> "partial", text |-> <<>>]

\* json encoding of one follow-up / one application: the members in key order
json_dump_follow_up(f) == <<"date", f.date, "note", f.note>>

json_dump_app(app) ==
    <<"id", app.id, "company", app.company, "status", app.status,
      "applied_date", app.applied_date, "last_updated", app.last_updated,
      "notes", app.notes,
      "follow_up_dates",
      [i \in 1 .. Len(app.follow_up_dates) |-> json_dump_follow_up(app.follow_up_dates[i])]>>

json_load_follow_up(t) == [date |-> t[2], note |-> t[4]]

json_load_app(t) ==
    [id |-> t[2], company |-> t[4], status |-> t[6], applied_date |-> t[8],
     last_updated |-> t[10], notes |-> t[12],
     follow_up_dates |-> [i \in 1 .. Len(t[14]) |-> json_load_follow_up(t[14][i])]]

Serializable(app) == app.notes # PyObject

AllSerializable(apps) == \A i \in 1 .. Len(apps) : Serializable(apps[i])

json_dump(apps) ==
    [kind |-> "json", text |-> [i \in 1 .. Len(apps) |-> json_dump_app(apps[i])]]

\* _load_applications: the parsed array, or [] when the file is missing or
\* json.load raises
_load_applications(file) ==
    IF file.kind = "json"
    THEN [i \in 1 .. Len(file.text) |-> json_load_app(file.text[i])]
    ELSE <<>>

\* _save_applications mutated: the last entry is not written
_save_applications_drop_last(apps, file, io) ==
    IF io = "open_error" THEN file
    ELSE IF io = "write_error" \/ ~AllSerializable(apps) THEN PartialFile
    ELSE json_dump(SubSeq(apps, 1, Len(apps) - 1))

\* _save_applications: open(db_file, 'w') truncates, json.dump writes; every
\* exception is swallowed
_save_applications(apps, file, io) ==
    IF io = "open_error" THEN file
    ELSE IF io = "write_error" \/ ~AllSerializable(apps) THEN PartialFile
    ELSE json_dump(apps)

SaveSucceeds(apps, io) == io = "ok" /\ AllSerializable(apps)

(***************************************************************************)
(* The tracker's operations, as functions of the list, the file, the       *)
(* arguments, the clock and the outcome of the file write.                 *)
(***************************************************************************)
\* FirstIndex mutated: the last application stands in for a missing one
FirstIndex_or_last(apps, app_id) ==
    IF \E i \in 1 .. Len(apps) : apps[i].id = app_id
    THEN CHOOSE i \in 1 .. Len(apps) :
            /\ apps[i].id = app_id
            /\ \A j \in 1 .. (i - 1) : apps[j].id # app_id
    ELSE Len(apps)

\* index of the first application whose id is app_id, 0 when there is none
FirstIndex(apps, app_id) ==
    IF \E i \in 1 .. Len(apps) : apps[i].id = app_id
    THEN CHOOSE i \in 1 .. Len(apps) :
            /\ apps[i].id = app_id
            /\ \A j \in 1 .. (i - 1) : apps[j].id # app_id
    ELSE 0

RemoveAt(s, i) == SubSeq(s, 1, i - 1) \o SubSeq(s, i + 1, Len(s))

\* the record add_application builds
new_application(apps, application_data, t) ==
    [id |-> Len(apps) + 1,
     company |-> application_data.company,
     status |-> "applied",
     applied_date |-> t,
     last_updated |-> t,
     notes |-> application_data.notes,
     follow_up_dates |-> <<>>]

\* add_application mutated: the new record is inserted at the head
add_application_at_head(apps, file, application_data, t, io) ==
    LET app == new_application(apps, application_data, t)
        new == <<app>> \o apps
    IN  [applications |-> new,
         db_file |-> _save_applications(new, file, io),
         found |-> TRUE, wrote |-> TRUE, saved |-> SaveSucceeds(new, io)]

add_application(apps, file, application_data, t, io) ==
    LET app == new_application(apps, application_data, t)
        new == Append(apps, app)
    IN  [applications |-> new,
         db_file |-> _save_applications(new, file, io),
         found |-> TRUE, wrote |-> TRUE, saved |-> SaveSucceeds(new, io)]

\* dict.update followed by the last_updated assignment
apply_updates(app, updates, t) ==
    [k \in DOMAIN app |->
        IF k = "last_updated" THEN t
        ELSE IF k \in DOMAIN updates THEN updates[k]
        ELSE app[k]]

Unchanged(apps, file) ==
    [applications |-> apps, db_file |-> file,
     found |-> FALSE, wrote |-> FALSE, saved |-> FALSE]

update_application(apps, file, app_id, updates, t, io) ==
    LET i == FirstIndex(apps, app_id) IN
    IF i = 0 THEN Unchanged(apps, file)
    ELSE LET new == [apps EXCEPT ![i] = apply_updates(apps[i], updates, t)]
         IN  [applications |-> new,
              db_file |-> _save_applications(new, file, io),
              found |-> TRUE, wrote |-> TRUE, saved |-> SaveSucceeds(new, io)]

add_follow_up(apps, file, app_id, note, t, io) ==
    LET i == FirstIndex(apps, app_id) IN
    IF i = 0 THEN Unchanged(apps, file)
    ELSE LET follow_up == [date |-> t, note |-> note]
             new == [apps EXCEPT ![i].follow_up_dates = Append(@, follow_up)]
         IN  [applications |-> new,
              db_file |-> _save_applications(new, file, io),
              found |-> TRUE, wrote |-> TRUE, saved |-> SaveSucceeds(new, io)]

delete_application(apps, file, app_id, io) ==
    LET i == FirstIndex(apps, app_id) IN
    IF i = 0 THEN Unchanged(apps, file)
    ELSE LET new == RemoveAt(apps, i)
         IN  [applications |-> new,
              db_file |-> _save_applications(new, file, io),
              found |-> TRUE, wrote |-> TRUE, saved |-> SaveSucceeds(new, io)]

LastCall(op, r) == [op |-> op, found |-> r.found, wrote |-> r.wrote, saved |-> r.saved]

(***************************************************************************)
(* The company researcher.  research_company is a coroutine: it creates    *)
(* the three request coroutines, hands them to asyncio.gather and merges   *)
(* their results when gather returns.  Each request coroutine catches its  *)
(* own exceptions and returns a text either way.                           *)
(***************************************************************************)
CompanyNames == {"", "Acme", "Globex"}     \* "" is what _extract_company_name
                                            \* returns when it finds no name
Parts == <<"overview", "news", "culture">>
TaskIds == 1 .. 3
TaskDone == {"ok", "failed"}
NoBundle == [kind |-> "none"]

NoResearch == [pc |-> "idle", company |-> "", tasks |-> [i \in TaskIds |-> "new"], requests |-> 0]

\* the text one request coroutine returns
part_text(company, part, state) ==
    IF state = "ok" THEN <<part, "of", company>> ELSE <<part, "not available">>

\* _analyze_company_data over the results of the three coroutines
_analyze_company_data(company, tasks, t) ==
    [kind |-> "bundle",
     overview |-> part_text(company, Parts[1], tasks[1]),
     recent_developments |-> part_text(company, Parts[2], tasks[2]),
     culture_and_benefits |-> part_text(company, Parts[3], tasks[3]),
     analysis_timestamp |-> t]

\* gather schedules the coroutines in list order
CanStart(tasks, i) == tasks[i] = "new" /\ \A j \in 1 .. (i - 1) : tasks[j] # "new"

\* CanComplete mutated: each coroutine is awaited on its own, its reply can
\* arrive while later ones are not started
CanComplete_awaited_in_turn(tasks, i) == tasks[i] = "pending"

\* a reply is delivered by the event loop, which runs the first step of
\* every scheduled coroutine before it polls for I/O
CanComplete(tasks, i) == tasks[i] = "pending" /\ \A j \in TaskIds : tasks[j] # "new"

\* await asyncio.gather(*tasks) returns when every coroutine has returned
GatherReturns(tasks) == \A i \in TaskIds : tasks[i] \in TaskDone

\* dict.get
get_cached_research(cache, company_name) ==
    IF company_name \in DOMAIN cache THEN cache[company_name] ELSE NoBundle

\* clear_cache: `if company_name:` is false for None and for ""
clear_cache(cache, company_name) ==
    IF company_name # NoneVal /\ company_name # ""
    THEN [c \in DOMAIN cache \ {company_name} |-> cache[c]]
    ELSE [c \in {} |-> NoBundle]

CachePut(cache, company_name, bundle) ==
    [c \in DOMAIN cache \cup {company_name} |->
        IF c = company_name THEN bundle ELSE cache[c]]

\* research_company(c) with c cached: the cached bundle is returned
ResearchHit ==
    /\ research.pc = "idle"
    /\ \E c \in DOMAIN company_cache :
          rlast' = [op |-> "research_company", arg |-> c,
                    ret |-> company_cache[c], requests |-> 0]
    /\ UNCHANGED <<company_cache, research, loop_time>>
    /\ UNCHANGED <<trackerVars, appVars, call>>

\* research_company(c) with c not cached, up to the await of gather
ResearchMiss ==
    /\ research.pc = "idle"
    /\ loop_time < MaxResearch
    /\ \E c \in CompanyNames \ DOMAIN company_cache :
          research' = [pc |-> "gather", company |-> c,
                       tasks |-> [i \in TaskIds |-> "new"], requests |-> 0]
    /\ UNCHANGED <<company_cache, loop_time, rlast>>
    /\ UNCHANGED <<trackerVars, appVars, call>>

\* a request coroutine runs up to its await of chat.completions.create
StartTask ==
    /\ research.pc = "gather"
    /\ \E i \in TaskIds :
          /\ CanStart(research.tasks, i)
          /\ research' = [research EXCEPT !.tasks[i] = "pending",
                                          !.requests = @ + 1]
    /\ UNCHANGED <<company_cache, loop_time, rlast>>
    /\ UNCHANGED <<trackerVars, appVars, call>>

\* a completion request returns or raises; the coroutine returns its text
CompleteTask ==
    /\ research.pc = "gather"
    /\ \E i \in TaskIds, outcome \in TaskDone :
          /\ CanComplete(research.tasks, i)
          /\ research' = [research EXCEPT !.tasks[i] = outcome]
    /\ UNCHANGED <<company_cache, loop_time, rlast>>
    /\ UNCHANGED <<trackerVars, appVars, call>>

\* gather returns: the results are merged, cached and returned
ResearchReturn ==
    /\ research.pc = "gather"
    /\ GatherReturns(research.tasks)
    /\ LET company_info ==
               _analyze_company_data(research.company, research.tasks, loop_time + 1)
       IN  /\ company_cache' = CachePut(company_cache, research.company, company_info)
           /\ rlast' = [op |-> "research_company", arg |-> research.company,
                        ret |-> company_info, requests |-> research.requests]
    /\ research' = [research EXCEPT !.pc = "idle"]
    /\ loop_time' = loop_time + 1
    /\ UNCHANGED <<trackerVars, appVars, call>>

GetCachedResearch ==
    /\ research.pc = "idle"
    /\ \E c \in CompanyNames :
          rlast' = [op |-> "get_cached_research", arg |-> c,
                    ret |-> get_cached_research(company_cache, c), requests |-> 0]
    /\ UNCHANGED <<company_cache, research, loop_time>>
    /\ UNCHANGED <<trackerVars, appVars, call>>

ClearCache ==
    /\ research.pc = "idle"
    /\ \E c \in CompanyNames \cup {NoneVal} :
          /\ company_cache' = clear_cache(company_cache, c)
          /\ rlast' = [op |-> "clear_cache", arg |-> c, ret |-> NoBundle, requests |-> 0]
    /\ UNCHANGED <<research, loop_time>>
    /\ UNCHANGED <<trackerVars, appVars, call>>

ResearchNext ==
    \/ ResearchHit
    \/ ResearchMiss
    \/ StartTask
    \/ CompleteTask
    \/ ResearchReturn
    \/ GetCachedResearch
    \/ ClearCache

(***************************************************************************)
(* The tracker as a state machine: a client calling its methods, and a new *)
(* process constructing a tracker over the same file.                      *)
(***************************************************************************)
\* What a call is recorded with: how many stored applications carry the id
\* it was given (the comparison app["id"] == app_id of every lookup loop)
Stored(apps, app_id) == Cardinality({i \in 1..Len(apps) : apps[i].id = app_id})

AddApplication ==
    /\ Len(applications) < MaxApps
    /\ now < MaxClock
    /\ \E application_data \in AppData, io \in IoOutcomes :
          LET r == add_application(applications, db_file, application_data, now + 1, io)
          IN  /\ applications' = r.applications
              /\ db_file' = r.db_file
              /\ last' = LastCall("add_application", r)
              /\ call' = [fn |-> "add_application", arg |-> NoneId, ret |-> "app"]
    /\ now' = now + 1
    /\ UNCHANGED <<researchVars, appVars>>

UpdateApplication ==
    /\ now < MaxClock
    /\ \E app_id \in AppIds, updates \in Updates, io \in IoOutcomes :
          LET r == update_application(applications, db_file, app_id, updates, now + 1, io)
          IN  /\ applications' = r.applications
              /\ db_file' = r.db_file
              /\ last' = LastCall("update_application", r)
              /\ call' = [fn |-> "update_application", arg |-> Stored(applications, app_id),
                          ret |-> IF r.found THEN "app" ELSE NoneVal]
    /\ now' = now + 1
    /\ UNCHANGED <<researchVars, appVars>>

AddFollowUp ==
    /\ now < MaxClock
    /\ \E app_id \in AppIds, io \in IoOutcomes :
          /\ \A i \in 1 .. Len(applications) :
                Len(applications[i].follow_up_dates) < MaxFollowUps
          /\ LET r == add_follow_up(applications, db_file, app_id, "call", now + 1, io)
             IN  /\ applications' = r.applications
                 /\ db_file' = r.db_file
                 /\ last' = LastCall("add_follow_up", r)
                 /\ call' = [fn |-> "add_follow_up", arg |-> Stored(applications, app_id),
                             ret |-> IF r.found THEN "app" ELSE NoneVal]
    /\ now' = now + 1
    /\ UNCHANGED <<researchVars, appVars>>

DeleteApplication ==
    /\ \E app_id \in AppIds, io \in IoOutcomes :
          LET r == delete_application(applications, db_file, app_id, io)
          IN  /\ applications' = r.applications
              /\ db_file' = r.db_file
              /\ last' = LastCall("delete_application", r)
              /\ call' = [fn |-> "delete_application", arg |-> Stored(applications, app_id),
                          ret |-> IF r.found THEN "True" ELSE "False"]
    /\ UNCHANGED now
    /\ UNCHANGED <<researchVars, appVars>>

\* the loop of get_application_statistics mutated: a status seen for the
\* first time is entered with count 0
RECURSIVE count_statuses_from_zero(_, _, _)
count_statuses_from_zero(apps, i, statuses) ==
    IF i > Len(apps) THEN statuses
    ELSE LET status == apps[i].status
             n == IF status \in DOMAIN statuses THEN statuses[status] + 1 ELSE 0
         IN  count_statuses_from_zero(apps, i + 1,
                 [s \in DOMAIN statuses \cup {status} |->
                     IF s = status THEN n ELSE statuses[s]])

\* the loop of get_application_statistics:
\* statuses[status] = statuses.get(status, 0) + 1
RECURSIVE count_statuses(_, _, _)
count_statuses(apps, i, statuses) ==
    IF i > Len(apps) THEN statuses
    ELSE LET status == apps[i].status
             n == IF status \in DOMAIN statuses THEN statuses[status] ELSE 0
         IN  count_statuses(apps, i + 1,
                 [s \in DOMAIN statuses \cup {status} |->
                     IF s = status THEN n + 1 ELSE statuses[s]])

\* get_application_statistics; the success rate is the fraction <<num, den>>
get_application_statistics(apps) ==
    LET total == Len(apps)
        statuses == count_statuses(apps, 1, [s \in {} |-> 0])
        accepted == IF "accepted" \in DOMAIN statuses THEN statuses["accepted"] ELSE 0
    IN  [total |-> total,
         statuses |-> statuses,
         success_rate |-> IF total > 0 THEN <<accepted, total>> ELSE <<0, 1>>]

GetStatistics ==
    /\ last' = [op |-> "get_application_statistics", found |-> FALSE, wrote |-> FALSE,
                saved |-> FALSE]
    /\ call' = [fn |-> "get_application_statistics", arg |-> 0,
                ret |-> get_application_statistics(applications)]
    /\ UNCHANGED <<applications, db_file, now>>
    /\ UNCHANGED <<researchVars, appVars>>

\* ApplicationTracker.__init__ in a new process: the list is loaded from the file
NewTracker ==
    /\ applications' = _load_applications(db_file)
    /\ last' = [op |-> "init", found |-> FALSE, wrote |-> FALSE, saved |-> FALSE]
    /\ call' = [fn |-> "__init__", arg |-> NoneId, ret |-> NoneVal]
    /\ UNCHANGED <<db_file, now>>
    /\ UNCHANGED <<researchVars, appVars>>

\* get_application: the first application with the id, or None
get_application(apps, app_id) ==
    IF FirstIndex(apps, app_id) = 0 THEN Unchanged(apps, db_file)
    ELSE [Unchanged(apps, db_file) EXCEPT !.found = TRUE]

GetApplication ==
    /\ \E app_id \in AppIds :
          LET r == get_application(applications, app_id)
          IN  /\ last' = LastCall("get_application", r)
              /\ call' = [fn |-> "get_application", arg |-> Stored(applications, app_id),
                          ret |-> IF r.found THEN "app" ELSE NoneVal]
    /\ UNCHANGED <<applications, db_file, now>>
    /\ UNCHANGED <<researchVars, appVars>>

TrackerNext ==
    \/ AddApplication
    \/ UpdateApplication
    \/ AddFollowUp
    \/ DeleteApplication
    \/ GetApplication
    \/ GetStatistics
    \/ NewTracker


\* add_application and delete_application only
AddDeleteNext ==
    \/ AddApplication
    \/ DeleteApplication


(***************************************************************************)
(* The job searcher.  A completion reply is the sequence of its lines      *)
(* (split on '\n' and stripped): a blank line, a line "key: value", or a   *)
(* line without ':'.  A value is the set of the words of its text.         *)
(***************************************************************************)
NoResume == [kind |-> "None"]
Resumes ==
    { [kind |-> "resume", skills |-> <<>>, experience |-> <<>>],
      [kind |-> "resume", skills |-> <<"python", "sql">>,
       experience |-> <<{"engineer", "acme"}>>] }

RequiredFields == {"title", "company", "location", "description"}
ListingFields == RequiredFields \cup {"salary", "url"}

FieldOrder == <<"title", "company", "location", "salary", "description", "url">>

BlankLine == [kind |-> "blank", key |-> "", value |-> {}]
TextLine == [kind |-> "text", key |-> "", value |-> {}]
Pair(key, value) == [kind |-> "pair", key |-> key, value |-> value]

\* the lines of a block with the given keys, in the order the prompt asks for
Block(keys, words) ==
    LET present == SelectSeq(FieldOrder, LAMBDA k : k \in keys)
    IN  [i \in 1 .. Len(present) |->
            Pair(present[i], IF present[i] = "description" THEN words ELSE {present[i]})]

\* blocks joined by one blank line each
RECURSIVE Reply(_)
Reply(blocks) ==
    IF blocks = <<>> THEN <<>>
    ELSE IF Len(blocks) = 1 THEN blocks[1]
    ELSE blocks[1] \o <<BlankLine>> \o Reply(Tail(blocks))

SearchReplies ==
    { Reply(<<>>),
      Reply(<<Block(ListingFields, {"python"})>>),
      Reply(<<Block(RequiredFields, {"sql"})>>),
      Reply(<<Block({"title", "company"}, {}),
              Block(ListingFields, {"engineer", "sql", "python"})>>) }

NoFlags == [api_key |-> FALSE, model |-> FALSE]
\* what str(e).lower() of a failed request contains
CompletionErrors == { [api_key |-> a, model |-> m] : a, m \in BOOLEAN }

\* outcomes of chat.completions.create: a reply with content, a reply whose
\* content is None, or an exception
SearchOutcomes ==
    { [ok |-> TRUE, has_content |-> TRUE, content |-> r, error |-> NoFlags] : r \in SearchReplies }
    \cup { [ok |-> TRUE, has_content |-> FALSE, content |-> <<>>, error |-> NoFlags] }
    \cup { [ok |-> FALSE, has_content |-> FALSE, content |-> <<>>, error |-> e] : e \in CompletionErrors }

Take(seq, n) == SubSeq(seq, 1, IF Len(seq) < n THEN Len(seq) ELSE n)

_construct_search_query(resume_data, filters) ==
    [skills |-> Take(resume_data.skills, 5),
     experience |-> IF Len(resume_data.experience) > 0 THEN resume_data.experience[1] ELSE {},
     location |-> filters.location,
     remote |-> IF filters.remote THEN "Yes" ELSE "No preference",
     min_salary |-> filters.min_salary]

EmptyJob == [k \in {} |-> {}]

\* if current_job and all(field in current_job for field in required_fields)
Complete(current_job) == RequiredFields \subseteq DOMAIN current_job

\* the loop of _parse_job_listings from line i on, and the test after it
RECURSIVE parse_lines(_, _, _, _)
parse_lines(lines, i, current_job, jobs) ==
    IF i > Len(lines)
    THEN IF Complete(current_job) THEN Append(jobs, current_job) ELSE jobs
    ELSE LET line == lines[i] IN
         IF line.kind = "blank"
         THEN parse_lines(lines, i + 1, EmptyJob,
                          IF Complete(current_job) THEN Append(jobs, current_job) ELSE jobs)
         ELSE IF line.kind = "pair"
         THEN parse_lines(lines, i + 1,
                          [k \in DOMAIN current_job \cup {Lower(line.key)} |->
                              IF k = Lower(line.key) THEN line.value ELSE current_job[k]],
                          jobs)
         ELSE parse_lines(lines, i + 1, current_job, jobs)

\* _parse_job_listings mutated: the test after the loop is missing, so only
\* blocks closed by a blank line are returned
_parse_job_listings_closed_only(content) ==
    LET blanks == {i \in 1 .. Len(content) : content[i].kind = "blank"}
        last_blank == CHOOSE i \in blanks : \A j \in blanks : j <= i
    IN  IF blanks = {} THEN <<>>
        ELSE parse_lines(SubSeq(content, 1, last_blank), 1, EmptyJob, <<>>)

_parse_job_listings(content) == parse_lines(content, 1, EmptyJob, <<>>)

\* keyword in job_desc: the text occurs inside a word of the description
Occurs(str, words) ==
    \E w \in words : str = w \/ <<str, w>> \in {<<"at", "data">>, <<"sql", "mysql">>}

\* job.get('description', '').lower()
job_desc(job) ==
    IF "description" \in DOMAIN job THEN {Lower(w) : w \in job["description"]} ELSE {}

\* match_score in halves: 1 per skill that occurs in the description, 0.5
\* per experience entry one of whose words occurs in it
match_score(job, resume_data) ==
    2 * Cardinality({i \in 1 .. Len(resume_data.skills) :
                        Occurs(Lower(resume_data.skills[i]), job_desc(job))})
    + Cardinality({i \in 1 .. Len(resume_data.experience) :
                        \E keyword \in resume_data.experience[i] :
                            Occurs(Lower(keyword), job_desc(job))})

\* InsertByScore mutated: the job goes before the jobs of equal score
RECURSIVE InsertByScore_before_ties(_, _)
InsertByScore_before_ties(sorted, job) ==
    IF sorted = <<>> THEN <<job>>
    ELSE IF sorted[1]["match_score"] > job["match_score"]
         THEN <<sorted[1]>> \o InsertByScore_before_ties(Tail(sorted), job)
         ELSE <<job>> \o sorted

RECURSIVE InsertByScore(_, _)
\* insert job after every job whose score is at least as high
InsertByScore(sorted, job) ==
    IF sorted = <<>> THEN <<job>>
    ELSE IF sorted[1]["match_score"] >= job["match_score"]
         THEN <<sorted[1]>> \o InsertByScore(Tail(sorted), job)
         ELSE <<job>> \o sorted

RECURSIVE StableSortDesc(_)
StableSortDesc(jobs) ==
    IF jobs = <<>> THEN <<>>
    ELSE InsertByScore(StableSortDesc(SubSeq(jobs, 1, Len(jobs) - 1)), jobs[Len(jobs)])

_score_and_rank_jobs(jobs, resume_data) ==
    StableSortDesc([i \in 1 .. Len(jobs) |->
        [k \in DOMAIN jobs[i] \cup {"match_score"} |->
            IF k = "match_score" THEN match_score(jobs[i], resume_data) ELSE jobs[i][k]]])

\* a request of search_jobs: whether it returned, and whether its reply
\* was then parsed (response.choices[0].message.content is not None)
SearchRequest(model, outcome) ==
    [op |-> "search_jobs", model |-> model, ok |-> outcome.ok, error |-> outcome.error,
     parsed |-> outcome.ok /\ outcome.has_content]

\* the body of a try block of search_jobs: the request, the parse, the ranking
SearchAttempt(outcome, resume_data) ==
    IF outcome.ok /\ outcome.has_content
    THEN [raised |-> FALSE, error |-> NoFlags,
          jobs |-> _score_and_rank_jobs(_parse_job_listings(outcome.content), resume_data)]
    ELSE [raised |-> TRUE, error |-> outcome.error, jobs |-> <<>>]

\* FallsBack mutated: every error is retried
FallsBack_always(error) == TRUE

\* the except branch that retries with gpt-3.5-turbo
FallsBack(error) == ~error.api_key /\ error.model

\* search_jobs mutated: an exception that is not retried, and an exception
\* of the retry, leave the function
search_jobs_reraises(resume_data, filters) ==
    UNION {
        LET first == SearchAttempt(o1, resume_data) IN
        IF ~first.raised
        THEN { [jobs |-> first.jobs, raised |-> FALSE,
                requests |-> <<SearchRequest("gpt-4o-search-preview", o1)>>] }
        ELSE IF FallsBack(first.error)
        THEN { [jobs |-> SearchAttempt(o2, resume_data).jobs,
                raised |-> SearchAttempt(o2, resume_data).raised,
                requests |-> <<SearchRequest("gpt-4o-search-preview", o1),
                               SearchRequest("gpt-3.5-turbo", o2)>>] : o2 \in SearchOutcomes }
        ELSE { [jobs |-> <<>>, raised |-> TRUE,
                requests |-> <<SearchRequest("gpt-4o-search-preview", o1)>>] }
        : o1 \in SearchOutcomes }

\* search_jobs: the possible results, one per outcome of its requests; both
\* try blocks catch Exception, and the function then returns []
search_jobs(resume_data, filters) ==
    UNION {
        LET first == SearchAttempt(o1, resume_data) IN
        IF ~first.raised
        THEN { [jobs |-> first.jobs, raised |-> FALSE,
                requests |-> <<SearchRequest("gpt-4o-search-preview", o1)>>] }
        ELSE IF FallsBack(first.error)
        THEN { [jobs |-> SearchAttempt(o2, resume_data).jobs, raised |-> FALSE,
                requests |-> <<SearchRequest("gpt-4o-search-preview", o1),
                               SearchRequest("gpt-3.5-turbo", o2)>>] : o2 \in SearchOutcomes }
        ELSE { [jobs |-> <<>>, raised |-> FALSE,
                requests |-> <<SearchRequest("gpt-4o-search-preview", o1)>>] }
        : o1 \in SearchOutcomes }

(***************************************************************************)
(* The chat interface.  An intent is what _analyze_intent returns: any     *)
(* JSON value the classifier replied with, or one of the fallback results. *)
(***************************************************************************)
Missing == "<missing>"          \* a key the dictionary does not have
NoFilters == [kind |-> "None"]
NoQuery == [kind |-> "None"]
NoCall == [op |-> "init", found |-> FALSE, wrote |-> FALSE, saved |-> FALSE]

IntentTypes == {"search_jobs", "company_info", "track_application", "get_stats",
                "general", "unknown"}

NoAdd == [kind |-> "missing"]
NoUpdate == [kind |-> "missing"]
Data(shape, add, update, view, filters) ==
    [shape |-> shape, add |-> add, update |-> update, view |-> view, filters |-> filters]
NoData == Data("missing", NoAdd, NoUpdate, FALSE, [kind |-> "none"])

\* the data values of a track_application intent
DataValues ==
    { NoData,
      Data("null", NoAdd, NoUpdate, FALSE, [kind |-> "none"]),
      Data("text", NoAdd, NoUpdate, FALSE, [kind |-> "none"]),
      Data("dict", NoAdd, NoUpdate, FALSE, [kind |-> "none"]),
      Data("dict", [kind |-> "dict", company |-> "Acme", notes |-> ""], NoUpdate, FALSE, [kind |-> "none"]),
      Data("dict", [kind |-> "dict", company |-> NoneVal, notes |-> ""], NoUpdate, FALSE, [kind |-> "none"]),
      Data("dict", [kind |-> "notdict"], NoUpdate, FALSE, [kind |-> "none"]),
      Data("dict", [kind |-> "dict", company |-> "Acme", notes |-> "call"],
           [kind |-> "dict", id |-> 1, changes |-> NoChanges], TRUE, [kind |-> "none"]),
      Data("dict", NoAdd, [kind |-> "dict", id |-> NoneId, changes |-> NoChanges], FALSE, [kind |-> "none"]),
      Data("dict", NoAdd, [kind |-> "dict", id |-> 1, changes |-> [status |-> "accepted"]], FALSE, [kind |-> "none"]),
      Data("dict", NoAdd, [kind |-> "dict", id |-> 2, changes |-> [status |-> "rejected"]], TRUE, [kind |-> "none"]),
      Data("dict", NoAdd, [kind |-> "malformed"], FALSE, [kind |-> "none"]),
      Data("dict", NoAdd, NoUpdate, TRUE, [kind |-> "none"]),
      Data("dict", NoAdd, NoUpdate, TRUE, [kind |-> "status", value |-> "accepted"]) }

Intent(isdict, type, company, data) ==
    [isdict |-> isdict, type |-> type, company |-> company, data |-> data]

Unhashable == "<list>"          \* a company value that is a JSON array

\* the values _analyze_intent can return
Intents ==
    { Intent(FALSE, Missing, Missing, NoData) }
    \cup { Intent(TRUE, ty, Missing, NoData) : ty \in IntentTypes \cup {Missing} }
    \cup { Intent(TRUE, "company_info", c, NoData) : c \in {"", "Acme", Unhashable} }
    \cup { Intent(TRUE, "general", "Acme", NoData) }
    \cup { Intent(TRUE, "track_application", Missing, d) : d \in DataValues }

HandlerResult(apps, file, t) ==
    [called |-> {}, requests |-> <<>>, reply |-> "", exc |-> FALSE,
     applications |-> apps, db_file |-> file, call |-> NoCall, now |-> t,
     filters |-> NoFilters, query |-> NoQuery, bundle |-> NoBundle]

session_get(state, key, default) ==
    IF key \in DOMAIN state THEN state[key] ELSE default

\* the filters _handle_job_search reads from st.session_state
session_filters(state) ==
    [location |-> session_get(state, "location", ""),
     remote |-> session_get(state, "remote", FALSE),
     min_salary |-> session_get(state, "min_salary", 0)]

\* formatting a job reads its salary and url
Formattable(job) == {"salary", "url"} \subseteq DOMAIN job

_handle_job_search(state, base) ==
    IF state.resume_data = NoResume
    THEN { [base EXCEPT !.reply = "upload_first"] }
    ELSE LET filters == session_filters(state) IN
         { LET h == [base EXCEPT !.called = {"job_searcher"},
                                 !.requests = r.requests,
                                 !.filters = filters,
                                 !.query = _construct_search_query(state.resume_data, filters)]
           IN  IF r.raised THEN [h EXCEPT !.exc = TRUE]
               ELSE IF r.jobs = <<>> THEN [h EXCEPT !.reply = "no_jobs"]
               ELSE IF \A i \in 1 .. Len(r.jobs) : Formattable(r.jobs[i])
               THEN [h EXCEPT !.reply = "jobs"]
               ELSE [h EXCEPT !.exc = TRUE]
           : r \in search_jobs(state.resume_data, filters) }

ResearchRequests(tasks) ==
    [i \in TaskIds |-> [op |-> Parts[i], model |-> "gpt-4o-mini", ok |-> tasks[i] = "ok"]]

\* asyncio.run(research_company(company_name)) on the researcher of this
\* run, whose cache is empty
_handle_company_research(company_name, base, t) ==
    IF company_name = Unhashable
    THEN { [base EXCEPT !.called = {"company_researcher"}, !.exc = TRUE] }
    ELSE { [base EXCEPT !.called = {"company_researcher"},
                        !.requests = ResearchRequests(tasks),
                        !.bundle = _analyze_company_data(company_name, tasks, t),
                        !.reply = "company_report"]
           : tasks \in [TaskIds -> TaskDone] }

TrackerResult(base, op, r, reply) ==
    [base EXCEPT !.called = {"application_tracker"},
                 !.applications = r.applications,
                 !.db_file = r.db_file,
                 !.call = LastCall(op, r),
                 !.reply = reply]

\* get_all_applications with no filters or a status filter
get_all_applications(apps, filters) ==
    IF filters.kind = "none" THEN apps
    ELSE SelectSeq(apps, LAMBDA app : app.status = filters.value)

_format_applications(apps) ==
    IF apps = <<>> THEN "no_applications" ELSE "applications"

_handle_application_tracking(data, base) ==
    LET apps == base.applications
        file == base.db_file
        t == base.now
    IN
    IF data.shape = "null" THEN { [base EXCEPT !.exc = TRUE] }
    ELSE IF data.shape = "text" THEN { [base EXCEPT !.reply = "unsure"] }
    ELSE IF data.add.kind # "missing"
    THEN IF data.add.kind = "notdict"
         THEN { [base EXCEPT !.called = {"application_tracker"}, !.exc = TRUE] }
         ELSE { [TrackerResult(base, "add_application",
                               add_application(apps, file, data.add, t + 1, io), "tracked")
                  EXCEPT !.now = t + 1] : io \in IoOutcomes }
    ELSE IF data.update.kind # "missing"
    THEN IF data.update.kind = "malformed"
         THEN { [base EXCEPT !.exc = TRUE] }
         ELSE { [TrackerResult(base, "update_application",
                               update_application(apps, file, data.update.id,
                                                  data.update.changes, t + 1, io), "updated")
                  EXCEPT !.now = t + 1] : io \in IoOutcomes }
    ELSE IF data.view
    THEN { [base EXCEPT !.called = {"application_tracker"},
                        !.call = [NoCall EXCEPT !.op = "get_all_applications"],
                        !.reply = _format_applications(get_all_applications(apps, data.filters))] }
    ELSE { [base EXCEPT !.reply = "unsure"] }

_handle_statistics(base) ==
    { [base EXCEPT !.called = {"application_tracker"},
                   !.call = [NoCall EXCEPT !.op = "get_application_statistics"],
                   !.reply = "stats"] }

\* the completion reply, or the canned help text when the request fails
_generate_general_response(base) ==
    { [base EXCEPT !.requests = <<[op |-> "general", model |-> "gpt-4", ok |-> ok]>>,
                   !.reply = IF ok THEN "general" ELSE "general_help"]
      : ok \in BOOLEAN }

\* Dispatch mutated: a statistics request also goes to the job searcher
Dispatch_stats_search(intent, state, base) ==
    IF ~intent.isdict \/ intent.type = Missing
    THEN { [base EXCEPT !.exc = TRUE] }
    ELSE IF intent.type = "search_jobs"
    THEN _handle_job_search(state, base)
    ELSE IF intent.type = "company_info"
    THEN IF intent.company = Missing
         THEN { [base EXCEPT !.exc = TRUE] }
         ELSE _handle_company_research(intent.company, base, base.now)
    ELSE IF intent.type = "track_application"
    THEN IF intent.data.shape = "missing"
         THEN { [base EXCEPT !.exc = TRUE] }
         ELSE _handle_application_tracking(intent.data, base)
    ELSE IF intent.type = "get_stats"
    THEN { [h EXCEPT !.called = @ \cup {"application_tracker"}, !.reply = "stats"]
           : h \in _handle_job_search(state, base) }
    ELSE _generate_general_response(base)

\* the if / elif chain of process_user_input; intent["type"], intent["company"]
\* and intent["data"] raise when the key is missing
Dispatch(intent, state, base) ==
    IF ~intent.isdict \/ intent.type = Missing
    THEN { [base EXCEPT !.exc = TRUE] }
    ELSE IF intent.type = "search_jobs"
    THEN _handle_job_search(state, base)
    ELSE IF intent.type = "company_info"
    THEN IF intent.company = Missing
         THEN { [base EXCEPT !.exc = TRUE] }
         ELSE _handle_company_research(intent.company, base, base.now)
    ELSE IF intent.type = "track_application"
    THEN IF intent.data.shape = "missing"
         THEN { [base EXCEPT !.exc = TRUE] }
         ELSE _handle_application_tracking(intent.data, base)
    ELSE IF intent.type = "get_stats"
    THEN _handle_statistics(base)
    ELSE _generate_general_response(base)

UserMessage(user_input) == [role |-> "user", content |-> user_input]
AssistantMessage(content) == [role |-> "assistant", content |-> content]

\* Respond mutated: no except clause around the dispatch
Respond_uncaught(messages, h) ==
    IF h.exc
    THEN [messages |-> messages, raised |-> TRUE]
    ELSE [messages |-> Append(messages, AssistantMessage(h.reply)), raised |-> FALSE]

\* the end of process_user_input: the reply, or the apology of the except
\* clause, is appended
Respond(messages, h) ==
    IF h.exc
    THEN [messages |-> Append(messages, AssistantMessage("error")), raised |-> FALSE]
    ELSE [messages |-> Append(messages, AssistantMessage(h.reply)), raised |-> FALSE]

(***************************************************************************)
(* _analyze_intent.  The classifier's reply is JSON (any value) or text;   *)
(* a text is described by the keywords it contains, by what follows        *)
(* "company:" in it, and by the application phrase it contains.            *)
(***************************************************************************)
Text(words, company_field, phrase) ==
    [words |-> words, company_field |-> company_field, phrase |-> phrase]

Texts ==
    { Text({}, "absent", "none"),
      Text({"search"}, "absent", "none"),
      Text({"search", "job"}, "absent", "none"),
      Text({"search", "job", "company"}, "acme", "none"),
      Text({"company"}, "absent", "none"),
      Text({"company"}, "empty", "none"),
      Text({"company", "stat"}, "acme", "none"),
      Text({"application"}, "absent", "add application"),
      Text({"application", "track"}, "absent", "update application"),
      Text({"application", "stat"}, "absent", "view applications"),
      Text({"track"}, "absent", "none"),
      Text({"stat"}, "absent", "none") }

\* every text the fallback can tell apart: the keywords of the lowered text,
\* what follows "company:" (which contains "company"), and the application
\* phrase (which contains "application")
Keywords == {"search", "job", "company", "application", "track", "stat"}
AllTexts ==
    { x \in { Text(w, c, ph) : w \in SUBSET Keywords,
                               c \in {"absent", "empty", "acme"},
                               ph \in {"none", "add application", "update application",
                                       "view applications"} } :
        /\ x.company_field # "absent" => "company" \in x.words
        /\ x.phrase # "none" => "application" \in x.words }

ClassifierOutcomes ==
    { [ok |-> FALSE, json |-> FALSE, value |-> Intent(FALSE, Missing, Missing, NoData),
       text |-> Text({}, "absent", "none")] }
    \cup { [ok |-> TRUE, json |-> TRUE, value |-> i, text |-> Text({}, "absent", "none")]
           : i \in Intents }
    \cup { [ok |-> TRUE, json |-> FALSE, value |-> Intent(FALSE, Missing, Missing, NoData),
            text |-> x] : x \in Texts }

AllClassifierOutcomes ==
    ClassifierOutcomes
    \cup { [ok |-> TRUE, json |-> FALSE, value |-> Intent(FALSE, Missing, Missing, NoData),
            text |-> x] : x \in AllTexts }

GeneralIntent == Intent(TRUE, "general", Missing, NoData)

\* _extract_application_data
_extract_application_data(text) ==
    IF text.phrase = "add application"
    THEN Data("dict", [kind |-> "dict", company |-> NoneVal, notes |-> ""], NoUpdate,
              FALSE, [kind |-> "none"])
    ELSE IF text.phrase = "update application"
    THEN Data("dict", NoAdd, [kind |-> "dict", id |-> NoneId, changes |-> NoChanges],
              FALSE, [kind |-> "none"])
    ELSE IF text.phrase = "view applications"
    THEN Data("dict", NoAdd, NoUpdate, TRUE, [kind |-> "none"])
    ELSE Data("dict", NoAdd, NoUpdate, FALSE, [kind |-> "none"])

\* _analyze_intent mutated: the company test comes before the search test
_analyze_intent_company_first(outcome) ==
    IF ~outcome.ok THEN GeneralIntent
    ELSE IF outcome.json THEN outcome.value
    ELSE LET text == outcome.text IN
         IF "company" \in text.words
         THEN IF text.company_field = "empty" THEN GeneralIntent
              ELSE Intent(TRUE, "company_info",
                          IF text.company_field = "absent" THEN "" ELSE text.company_field,
                          NoData)
         ELSE IF {"search", "job"} \subseteq text.words
         THEN Intent(TRUE, "search_jobs", Missing, NoData)
         ELSE IF "application" \in text.words \/ "track" \in text.words
         THEN Intent(TRUE, "track_application", Missing, _extract_application_data(text))
         ELSE IF "stat" \in text.words
         THEN Intent(TRUE, "get_stats", Missing, NoData)
         ELSE GeneralIntent

\* _analyze_intent: json.loads, else the keyword fallback; every exception
\* (the request failing, _extract_company_name finding nothing after
\* "company:") gives the general intent
_analyze_intent(outcome) ==
    IF ~outcome.ok THEN GeneralIntent
    ELSE IF outcome.json THEN outcome.value
    ELSE LET text == outcome.text IN
         IF {"search", "job"} \subseteq text.words
         THEN Intent(TRUE, "search_jobs", Missing, NoData)
         ELSE IF "company" \in text.words
         THEN IF text.company_field = "empty" THEN GeneralIntent
              ELSE Intent(TRUE, "company_info",
                          IF text.company_field = "absent" THEN "" ELSE text.company_field,
                          NoData)
         ELSE IF "application" \in text.words \/ "track" \in text.words
         THEN Intent(TRUE, "track_application", Missing, _extract_application_data(text))
         ELSE IF "stat" \in text.words
         THEN Intent(TRUE, "get_stats", Missing, NoData)
         ELSE GeneralIntent

\* process_user_input: the possible outcomes of one chat turn
process_user_input(user_input, state, apps, file, t) ==
    LET messages == Append(state.messages, UserMessage(user_input))
        base == HandlerResult(apps, file, t)
    IN  UNION {
          LET intent == _analyze_intent(outcome) IN
          { [h |-> [h EXCEPT !.requests =
                        <<[op |-> "intent", model |-> "gpt-4", ok |-> outcome.ok]>> \o @],
             intent |-> intent,
             out |-> Respond(messages, h)]
            : h \in Dispatch(intent, state, base) }
          : outcome \in ClassifierOutcomes }

(***************************************************************************)
(* The Streamlit shell.  Every interaction runs the script once:           *)
(* AIRecruiterApp() builds new collaborators (the tracker loads the file,  *)
(* the researcher's cache is empty) and main() handles the upload, the     *)
(* sidebar and the chat input of this run.                                 *)
(***************************************************************************)
MaxUploadSize == 5 * 1024 * 1024

NoFile == [kind |-> "None"]
UploadFiles ==
    { [kind |-> "file", size |-> sz, ext |-> e, parses |-> ok, parsed |-> r]
      : sz \in {MaxUploadSize, MaxUploadSize + 1},
        e \in {".docx", ".DOC", ".pdf"},
        ok \in BOOLEAN,
        r \in Resumes }

\* handle_file_upload mutated: the size limit is not checked
handle_file_upload_any_size(file) ==
    IF Lower(file.ext) \notin {".doc", ".docx"} THEN NoResume
    ELSE IF ~file.parses THEN NoResume
    ELSE file.parsed

\* handle_file_upload: the parsed resume, or None
handle_file_upload(file) ==
    IF file.size > MaxUploadSize THEN NoResume
    ELSE IF Lower(file.ext) \notin {".doc", ".docx"} THEN NoResume
    ELSE IF ~file.parses THEN NoResume
    ELSE file.parsed

\* handle_file_upload reaches self.resume_parser.parse(file)
ParserCalled(file) ==
    ~(file.size > MaxUploadSize) /\ ~(Lower(file.ext) \notin {".doc", ".docx"})

\* the values of the three sidebar widgets in a run
DefaultSidebar == [location |-> "", remote |-> FALSE, min_salary |-> 0]
Sidebars == { DefaultSidebar, [location |-> "Austin", remote |-> TRUE, min_salary |-> 100000] }

UserInputs == {"hello"}

NoTurn ==
    [chat |-> FALSE, upload |-> "none", before |-> 0, input |-> NoneVal,
     sidebar |-> DefaultSidebar,
     resume |-> NoResume, intent |-> GeneralIntent, called |-> {}, requests |-> <<>>,
     reply |-> "", raised |-> FALSE, filters |-> NoFilters, query |-> NoQuery,
     bundle |-> NoBundle, file |-> NoFile, parser_called |-> FALSE]

\* ChatEnabled mutated: main goes on to the chat without a resume
ChatEnabled_always(state) == TRUE

\* main returns before the chat while resume_data is None
ChatEnabled(state) == state.resume_data # NoResume

\* the upload block of main: the session state after it
Upload(state, file, welcome) ==
    IF file # NoFile /\ state.resume_data = NoResume /\ handle_file_upload(file) # NoResume
    THEN [state EXCEPT !.resume_data = handle_file_upload(file),
                       !.messages = <<AssistantMessage(welcome)>>]
    ELSE state

UploadStatus(state, file) ==
    IF file = NoFile \/ state.resume_data # NoResume THEN "none"
    ELSE IF handle_file_upload(file) = NoResume THEN "rejected"
    ELSE "accepted"

\* the file handed to handle_file_upload in this run, if any
UploadedFile(state, file) ==
    IF file = NoFile \/ state.resume_data # NoResume THEN NoFile
    ELSE [kind |-> "file", size |-> file.size, ext |-> file.ext, parses |-> file.parses]

UploadParses(state, file) ==
    IF file = NoFile \/ state.resume_data # NoResume THEN FALSE
    ELSE ParserCalled(file)

NoCallYet == [fn |-> "none"]

Init ==
    /\ applications = <<>>
    /\ db_file = MissingFile
    /\ now = 0
    /\ last = NoCall
    /\ company_cache = [c \in {} |-> NoBundle]
    /\ research = NoResearch
    /\ loop_time = 0
    /\ rlast = [op |-> "init", arg |-> NoneVal, ret |-> NoBundle, requests |-> 0]
    /\ session_state = [resume_data |-> NoResume, messages |-> <<>>]
    /\ turn = NoTurn
    /\ runs = 0
    /\ call = NoCallYet

\* main() with no chat input, or returning at the resume check
RunIdle(state, file, sidebar) ==
    /\ turn' = [NoTurn EXCEPT !.upload = UploadStatus(session_state, file),
                              !.sidebar = sidebar,
                              !.file = UploadedFile(session_state, file),
                              !.parser_called = UploadParses(session_state, file),
                              !.before = Len(state.messages),
                              !.resume = state.resume_data]
    /\ session_state' = state
    /\ applications' = _load_applications(db_file)
    /\ last' = NoCall
    /\ UNCHANGED <<db_file, now>>

\* main() reaching process_user_input
RunChat(state, file, sidebar, user_input) ==
    \E r \in process_user_input(user_input, state, _load_applications(db_file), db_file, now) :
        /\ r.h.now <= MaxClock
        /\ Len(r.h.applications) <= MaxApps
        /\ turn' = [chat |-> TRUE, upload |-> UploadStatus(session_state, file),
                    before |-> Len(state.messages), input |-> user_input,
                    sidebar |-> sidebar,
                    resume |-> state.resume_data, intent |-> r.intent,
                    called |-> r.h.called, requests |-> r.h.requests,
                    reply |-> r.h.reply, raised |-> r.out.raised,
                    filters |-> r.h.filters, query |-> r.h.query, bundle |-> r.h.bundle,
                    file |-> UploadedFile(session_state, file),
                    parser_called |-> UploadParses(session_state, file)]
        /\ session_state' = [state EXCEPT !.messages = r.out.messages]
        /\ applications' = r.h.applications
        /\ db_file' = r.h.db_file
        /\ last' = r.h.call
        /\ now' = r.h.now

\* one run of the script: AIRecruiterApp() and main()
AppRun ==
    /\ runs < MaxRuns
    /\ runs' = runs + 1
    /\ \E file \in (IF session_state.resume_data = NoResume THEN UploadFiles ELSE {}) \cup {NoFile},
          welcome \in {"welcome", "welcome_plain"},
          sidebar \in Sidebars,
          user_input \in UserInputs \cup {NoneVal} :
          LET state == Upload(session_state, file, welcome) IN
          IF ChatEnabled(state) /\ user_input # NoneVal
          THEN RunChat(state, file, sidebar, user_input)
          ELSE RunIdle(state, file, sidebar)
    /\ UNCHANGED <<researchVars, call>>

AppNext == AppRun

(***************************************************************************)
(* Functions called on their own, with every input of a bounded set.       *)
(***************************************************************************)
AnalyzeIntent ==
    /\ \E outcome \in AllClassifierOutcomes :
          call' = [fn |-> "_analyze_intent", arg |-> outcome,
                   ret |-> _analyze_intent(outcome)]
    /\ UNCHANGED <<trackerVars, researchVars, appVars>>

\* the blocks replies are built from: complete ones, one without
\* description, one with a capitalised key and a line without ':', one that
\* gives description twice, one of prose only, and an empty one (two
\* blank lines in a row)
ReplyBlocks ==
    { Block(RequiredFields, {"python"}),
      Block(ListingFields, {"sql"}),
      Block({"title", "company", "location", "salary"}, {}),
      <<Pair("Title", {"Engineer"}), TextLine, Pair("company", {"acme"}),
        Pair("location", {"austin"}), Pair("description", {"Data"})>>,
      <<Pair("description", {"draft"}), Pair("title", {"analyst"}), Pair("company", {"globex"}),
        Pair("location", {"remote"}), Pair("description", {"mysql"})>>,
      <<TextLine>>,
      <<>> }

BlockLists == UNION { [1 .. n -> ReplyBlocks] : n \in 0 .. MaxBlocks }

\* the reply as _parse_job_listings gets it, with or without a last blank line
ReplyLines(blocks, trailing) ==
    Reply(blocks) \o (IF trailing THEN <<BlankLine>> ELSE <<>>)

\* parsed jobs and resumes given to _score_and_rank_jobs
RankJobs ==
    { _parse_job_listings(Block(RequiredFields, d))[1] :
        d \in { {"python"}, {"Data"}, {"mysql", "engineer"}, {"sales"} } }

JobLists == UNION { [1 .. n -> RankJobs] : n \in 0 .. MaxJobs }

RankResumes ==
    { [kind |-> "resume", skills |-> <<>>, experience |-> <<>>],
      [kind |-> "resume", skills |-> <<"Python", "sql">>,
       experience |-> <<{"Developer", "at", "acme"}>>],
      [kind |-> "resume", skills |-> <<"sales">>,
       experience |-> <<{"engineer"}, {"at"}>>] }

ScoreAndRankJobs ==
    /\ \E jobs \in JobLists, resume_data \in RankResumes :
          call' = [fn |-> "_score_and_rank_jobs",
                   arg |-> [jobs |-> jobs, resume_data |-> resume_data],
                   ret |-> _score_and_rank_jobs(jobs, resume_data)]
    /\ UNCHANGED <<trackerVars, researchVars, appVars>>

ParseJobListings ==
    /\ \E blocks \in BlockLists, trailing \in BOOLEAN :
          call' = [fn |-> "_parse_job_listings",
                   arg |-> [blocks |-> blocks, trailing |-> trailing],
                   ret |-> _parse_job_listings(ReplyLines(blocks, trailing))]
    /\ UNCHANGED <<trackerVars, researchVars, appVars>>

(***************************************************************************)
(* Specifications: each component driven on its own, and the whole app.    *)
(***************************************************************************)
SpecIntent == Init /\ [][AnalyzeIntent]_vars

SpecParse == Init /\ [][ParseJobListings]_vars

SpecRank == Init /\ [][ScoreAndRankJobs]_vars

SpecTracker == Init /\ [][TrackerNext]_vars

SpecAddDelete == Init /\ [][AddDeleteNext]_vars

SpecResearch == Init /\ [][ResearchNext]_vars

SpecApp == Init /\ [][AppNext]_vars

(***************************************************************************)
(* Claims about the application tracker.                                   *)
(***************************************************************************)
IsPrefix(s, t) == Len(s) <= Len(t) /\ SubSeq(t, 1, Len(s)) = s

\* the application records the file holds
FileRecords(file) == file.text

\* C1: after any sequence of add_application and delete_application calls no
\* two stored applications share an id.
C1_IdsUnique ==
    \A i, j \in 1 .. Len(applications) :
        i # j => applications[i].id # applications[j].id

C3_AppendOnly ==
    [][IsPrefix(FileRecords(db_file), FileRecords(db_file'))]_vars

\* C3 amended: add_application is the append-only operation: when the file
\* held the in-memory list before the call and the write succeeds, the
\* records in the file before are a prefix of the records after, which are
\* exactly one more.
C3_AddAppends ==
    [][(/\ last'.op = "add_application"
        /\ last'.saved
        /\ _load_applications(db_file) = applications)
       => /\ IsPrefix(FileRecords(db_file), FileRecords(db_file'))
          /\ Len(FileRecords(db_file')) = Len(FileRecords(db_file)) + 1]_vars

C3_Witness ==
    /\ last.op = "add_application"
    /\ last.saved
    /\ Len(FileRecords(db_file)) = 2

(***************************************************************************)
(* Claims about the company researcher.                                    *)
(***************************************************************************)
\* C6: on a cache miss research_company fires exactly three completion
\* requests, one per part; none of them has finished while another is not
\* yet started; and the merged bundle is returned only after all three have
\* completed.
C6_ThreeConcurrentRequests ==
    /\ [](/\ (research.pc = "gather" /\ \E i \in TaskIds : research.tasks[i] \in TaskDone)
              => \A j \in TaskIds : research.tasks[j] # "new"
          /\ research.requests = Cardinality({i \in TaskIds : research.tasks[i] # "new"}))
    /\ [][(research.pc = "gather" /\ research'.pc = "idle")
            => /\ research.requests = 3
               /\ \A i \in TaskIds : research.tasks[i] \in TaskDone
               /\ rlast'.requests = 3
               /\ rlast'.ret = _analyze_company_data(research.company, research.tasks, loop_time')
               /\ company_cache'[research.company] = rlast'.ret]_vars

\* all three requests are in flight at once
C6_Witness ==
    /\ research.pc = "gather"
    /\ \A i \in TaskIds : research.tasks[i] = "pending"

\* C7: a bundle research_company(c) returned stays cached for c,
\* get_cached_research(c) and later research_company(c) calls return it
\* without a completion request, until clear_cache(c) or clear_cache()
\* removes it; clear_cache(c) leaves the entries of other names alone.
C7_CachedUntilCleared ==
    [][/\ \A c \in DOMAIN company_cache :
            ~(rlast'.op = "clear_cache" /\ rlast'.arg \in {c, NoneVal})
               => (c \in DOMAIN company_cache' /\ company_cache'[c] = company_cache[c])
       /\ (research.pc = "idle" /\ research'.pc = "idle"
              /\ rlast'.op \in {"research_company", "get_cached_research"}
              /\ rlast'.arg \in DOMAIN company_cache)
            => (rlast'.ret = company_cache[rlast'.arg] /\ rlast'.requests = 0)
      ]_vars

(***************************************************************************)
(* Claims about the chat turn and the app.                                 *)
(***************************************************************************)
\* the collaborator that matches an intent
MatchingCollaborators(intent) ==
    IF ~intent.isdict THEN {}
    ELSE IF intent.type = "search_jobs" THEN {"job_searcher"}
    ELSE IF intent.type = "company_info" THEN {"company_researcher"}
    ELSE IF intent.type \in {"track_application", "get_stats"} THEN {"application_tracker"}
    ELSE {}

RoutedTypes == {"search_jobs", "company_info", "track_application", "get_stats"}

\* C4: a chat turn calls at most one collaborator, the one matching the
\* intent; an intent of any other type calls none and gets the general
\* response.
C4_OneMatchingCollaborator ==
    turn.chat =>
        /\ Cardinality(turn.called) <= 1
        /\ turn.called \subseteq MatchingCollaborators(turn.intent)
        /\ (turn.intent.isdict /\ turn.intent.type \notin RoutedTypes \cup {Missing})
              => /\ turn.called = {}
                 /\ turn.reply \in {"general", "general_help"}

C4_Witness ==
    /\ turn.chat
    /\ turn.intent.type = "get_stats"
    /\ turn.called = {"application_tracker"}
    /\ turn.reply = "stats"

\* C5: whatever the classifier returned and whatever failed, a chat turn
\* appends exactly the user's message and one assistant message, and does
\* not raise.
C5_TurnAnswered ==
    turn.chat =>
        /\ ~turn.raised
        /\ Len(session_state.messages) = turn.before + 2
        /\ session_state.messages[turn.before + 1] = UserMessage(turn.input)
        /\ session_state.messages[turn.before + 2].role = "assistant"

\* a classifier value without a type is answered with the apology
C5_Witness ==
    /\ turn.chat
    /\ turn.intent.isdict
    /\ turn.intent.type = Missing
    /\ session_state.messages[Len(session_state.messages)] = AssistantMessage("error")

\* C8: the location, remote and minimum-salary values passed to search_jobs
\* are the values set in the sidebar.
C8_FiltersFromSidebar ==
    (turn.chat /\ "job_searcher" \in turn.called) => turn.filters = turn.sidebar

SearchIndices == {i \in 1 .. Len(turn.requests) : turn.requests[i].op = "search_jobs"}

\* C9 as stated: within a chat turn a failed completion request is never
\* followed by a second request for the same operation, and search_jobs
\* issues at most one request.
C9_NoRetries ==
    turn.chat =>
        /\ \A i, j \in 1 .. Len(turn.requests) :
              (i < j /\ ~turn.requests[i].ok) => turn.requests[j].op # turn.requests[i].op
        /\ Cardinality(SearchIndices) <= 1

\* C9 amended: the only retry is the model fallback of search_jobs: it
\* issues at most two requests, the second (to gpt-3.5-turbo) only after
\* the first (to gpt-4o-search-preview) failed with an error text that
\* contains "model" and not "api_key"; no other operation of a turn issues
\* a second request.
C9_OnlyModelFallback ==
    turn.chat =>
        /\ Cardinality(SearchIndices) <= 2
        /\ \A i, j \in SearchIndices :
              i < j => /\ ~turn.requests[i].ok
                       /\ turn.requests[i].error.model
                       /\ ~turn.requests[i].error.api_key
                       /\ turn.requests[i].model = "gpt-4o-search-preview"
                       /\ turn.requests[j].model = "gpt-3.5-turbo"
        /\ \A i, j \in (1 .. Len(turn.requests)) \ SearchIndices :
              i < j => turn.requests[j].op # turn.requests[i].op

\* the fallback request failed too and was not retried
C9_Witness ==
    /\ turn.chat
    /\ Cardinality(SearchIndices) = 2
    /\ ~turn.requests[Len(turn.requests)].ok
    /\ turn.reply = "no_jobs"

\* C10: process_user_input runs only with a resume in the session, so no
\* collaborator is called from the chat without one and the "upload your
\* resume first" reply is never produced.
C10_ChatNeedsResume ==
    /\ turn.chat => (turn.resume # NoResume /\ session_state.resume_data # NoResume)
    /\ turn.reply # "upload_first"
    /\ session_state.resume_data = NoResume => (turn.called = {} /\ ~turn.chat)

C10_Witness ==
    /\ turn.chat
    /\ turn.upload = "accepted"
    /\ turn.intent.type = "search_jobs"
    /\ "job_searcher" \in turn.called

(***************************************************************************)
(* Claims about the upload.                                                *)
(***************************************************************************)
\* C11: a file larger than 5 MB, or whose name does not end in .doc or
\* .docx (in any case), is rejected without the parser being called; a file
\* the parser raises on is rejected too; a rejected upload leaves
\* resume_data None and the chat history as it was.
C11_BadUploadRejected ==
    /\ [](turn.file # NoFile =>
            /\ (turn.file.size > 5 * 1024 * 1024 \/ turn.file.ext \notin {".doc", ".docx", ".DOC"})
                  => (~turn.parser_called /\ turn.upload = "rejected")
            /\ ~turn.file.parses => turn.upload = "rejected"
            /\ turn.upload = "rejected"
                  => (session_state.resume_data = NoResume /\ ~turn.chat))
    /\ [][turn'.upload = "rejected" => session_state' = session_state]_vars

\* a file one byte over the limit was rejected
C11_Witness ==
    /\ turn.file # NoFile
    /\ turn.file.size = MaxUploadSize + 1
    /\ turn.file.ext = ".docx"
    /\ turn.file.parses
    /\ turn.upload = "rejected"

(***************************************************************************)
(* Claims about the intent analysis                                        *)
(***************************************************************************)
FallbackTypes == {"search_jobs", "company_info", "track_application", "get_stats", "general"}

\* C12: _analyze_intent always returns an intent: JSON is returned as parsed;
\* a text goes through the keyword fallback, 'search' and 'job' before
\* 'company' before 'application' or 'track' before 'stat'; no keyword, a
\* failed call or a failed extraction give {"type": "general"}
C12_IntentAlwaysReturned ==
    call.fn = "_analyze_intent" =>
        LET o == call.arg
            r == call.ret
            w == o.text.words
            search == {"search", "job"} \subseteq w
            company == "company" \in w
            track == "application" \in w \/ "track" \in w
            stat == "stat" \in w
        IN  /\ (o.ok /\ o.json) => r = o.value
            /\ ~o.ok => r = GeneralIntent
            /\ (o.ok /\ ~o.json) =>
                  /\ r.isdict /\ r.type \in FallbackTypes
                  /\ search => r.type = "search_jobs"
                  /\ (~search /\ company /\ o.text.company_field # "empty")
                        => (r.type = "company_info" /\ r.company \in {"", o.text.company_field})
                  /\ (~search /\ company /\ o.text.company_field = "empty")
                        => r = GeneralIntent
                  /\ (~search /\ ~company /\ track) => r.type = "track_application"
                  /\ (~search /\ ~company /\ ~track /\ stat) => r.type = "get_stats"
                  /\ (~search /\ ~company /\ ~track /\ ~stat) => r = GeneralIntent

C12_Witness ==
    /\ call.fn = "_analyze_intent"
    /\ call.arg.ok /\ ~call.arg.json
    /\ call.arg.text.words = {"search", "job", "company", "track", "stat"}
    /\ call.ret.type = "search_jobs"

(***************************************************************************)
(* Claims about the statistics                                             *)
(***************************************************************************)
RECURSIVE SumOver(_, _)
SumOver(f, keys) ==
    IF keys = {} THEN 0
    ELSE LET k == CHOOSE x \in keys : TRUE IN f[k] + SumOver(f, keys \ {k})

\* C13: in every reachable tracker state the statistics have total = number
\* of stored applications, breakdown counts (each at least 1) that sum to
\* the total, and a success rate of 0 for no applications and
\* accepted / total otherwise
C13_StatisticsConsistent ==
    call.fn = "get_application_statistics" =>
        LET st == call.ret
            accepted == Cardinality({i \in 1..Len(applications) :
                                        applications[i].status = "accepted"})
        IN  /\ st.total = Len(applications)
            /\ SumOver(st.statuses, DOMAIN st.statuses) = st.total
            /\ \A status \in DOMAIN st.statuses : st.statuses[status] >= 1
            /\ st.total = 0 => st.success_rate[1] = 0
            /\ st.total > 0 =>
                  st.success_rate[1] * st.total = accepted * st.success_rate[2]

C13_Witness ==
    /\ call.fn = "get_application_statistics"
    /\ call.ret.total = 2
    /\ call.ret.success_rate = <<1, 2>>
    /\ DOMAIN call.ret.statuses = {"accepted", "applied"}

(***************************************************************************)
(* Claims about the job listings                                           *)
(***************************************************************************)
\* the keys a block gives as "key: value" lines
BlockKeys(block) == {Lower(block[i].key) : i \in {j \in 1 .. Len(block) : block[j].kind = "pair"}}

\* the record of a block: every key with the value of its last line
BlockRecord(block) ==
    [k \in BlockKeys(block) |->
        LET at == {i \in 1 .. Len(block) : block[i].kind = "pair" /\ Lower(block[i].key) = k}
        IN  block[CHOOSE i \in at : \A j \in at : j <= i].value]

\* C14: _parse_job_listings returns, in reply order, exactly the blocks that
\* have all of title, company, location and description as "key: value"
\* lines; other blocks are dropped and every record has the four fields
C14_CompleteBlocksInOrder ==
    call.fn = "_parse_job_listings" =>
        LET kept == SelectSeq(call.arg.blocks,
                              LAMBDA b : {"title", "company", "location", "description"}
                                            \subseteq BlockKeys(b))
        IN  /\ Len(call.ret) = Len(kept)
            /\ \A i \in 1 .. Len(kept) :
                  /\ call.ret[i] = BlockRecord(kept[i])
                  /\ {"title", "company", "location", "description"} \subseteq DOMAIN call.ret[i]

C14_Witness ==
    /\ call.fn = "_parse_job_listings"
    /\ Len(call.arg.blocks) = 2 /\ ~call.arg.trailing
    /\ call.arg.blocks[1] = Block({"title", "company", "location", "salary"}, {})
    /\ "Title" \in {call.arg.blocks[2][i].key : i \in 1 .. Len(call.arg.blocks[2])}
    /\ Len(call.ret) = 1
    /\ call.ret[1]["title"] = {"Engineer"}

(***************************************************************************)
(* Claims about the ranking                                                *)
(***************************************************************************)
\* the result is the given jobs, each with its score, by non-increasing
\* score, jobs of equal score in their input order
\* (scores[i] is the score of the i-th job given)
RankedBy(scores) ==
        LET jobs == call.arg.jobs
            out == call.ret
            n == Len(jobs)
        IN  /\ Len(out) = n
            /\ \E p \in [1 .. n -> 1 .. n] :
                  /\ \A i, j \in 1 .. n : p[i] = p[j] => i = j
                  /\ \A i \in 1 .. n :
                        /\ DOMAIN out[i] = DOMAIN jobs[p[i]] \cup {"match_score"}
                        /\ \A k \in DOMAIN jobs[p[i]] : out[i][k] = jobs[p[i]][k]
                        /\ out[i]["match_score"] = scores[p[i]]
                  /\ \A i, j \in 1 .. n :
                        i < j => \/ out[i]["match_score"] > out[j]["match_score"]
                                 \/ /\ out[i]["match_score"] = out[j]["match_score"]
                                    /\ p[i] < p[j]

\* scores in halves.  Skills: the lower-cased skill occurs in the
\* lower-cased description
SkillPoints(job, resume_data) ==
    2 * Cardinality({i \in 1 .. Len(resume_data.skills) :
            \E w \in job["description"] :
                Occurs(Lower(resume_data.skills[i]), {Lower(w)})})

\* experience: the entry and the description have a word in common
SharedWordPoints(job, resume_data) ==
    Cardinality({i \in 1 .. Len(resume_data.experience) :
        {Lower(w) : w \in resume_data.experience[i]}
            \cap {Lower(w) : w \in job["description"]} # {}})

\* experience: a word of the entry occurs somewhere in the description
WordOccursPoints(job, resume_data) ==
    Cardinality({i \in 1 .. Len(resume_data.experience) :
        \E keyword \in resume_data.experience[i], w \in job["description"] :
            Occurs(Lower(keyword), {Lower(w)})})

SharedWordScore(job, resume_data) ==
    SkillPoints(job, resume_data) + SharedWordPoints(job, resume_data)

WordOccursScore(job, resume_data) ==
    SkillPoints(job, resume_data) + WordOccursPoints(job, resume_data)

\* C15 as stated: a permutation of the jobs by non-increasing score, ties in
\* input order, the score being the number of skills occurring in the
\* description plus one half per experience entry that shares a word with it
C15_RankedBySharedWords ==
    call.fn = "_score_and_rank_jobs" =>
        RankedBy([i \in 1 .. Len(call.arg.jobs) |->
                    SharedWordScore(call.arg.jobs[i], call.arg.resume_data)])

\* C15 amended: the same, with one half per experience entry one of whose
\* words occurs anywhere in the description, inside a longer word too
C15_RankedByOccurringWords ==
    call.fn = "_score_and_rank_jobs" =>
        RankedBy([i \in 1 .. Len(call.arg.jobs) |->
                    WordOccursScore(call.arg.jobs[i], call.arg.resume_data)])

C15_Witness ==
    /\ call.fn = "_score_and_rank_jobs"
    /\ Len(call.arg.jobs) = 3
    /\ call.arg.jobs[1]["description"] = {"Data"}
    /\ call.arg.jobs[2]["description"] = {"python"}
    /\ call.arg.jobs[3]["description"] = {"mysql", "engineer"}
    /\ call.arg.resume_data.skills = <<"Python", "sql">>
    /\ call.ret[1]["description"] = {"python"} /\ call.ret[1]["match_score"] = 2
    /\ call.ret[2]["description"] = {"mysql", "engineer"} /\ call.ret[2]["match_score"] = 2
    /\ call.ret[3]["description"] = {"Data"} /\ call.ret[3]["match_score"] = 1

(***************************************************************************)
(* Claims about failures of the job search                                 *)
(***************************************************************************)
\* the request raised, or reading its reply did
SearchFailed(i) == ~turn.requests[i].ok \/ ~turn.requests[i].parsed

LastMessage == session_state.messages[Len(session_state.messages)].content

LookupOps == {"update_application", "add_follow_up", "delete_application", "get_application"}

\* C17: update_application, add_follow_up, delete_application and
\* get_application with an id no stored application has return None (False
\* for delete) and leave the list and the file as they were, without a write
C17_UnknownIdNoOp ==
    [][(call'.fn \in LookupOps /\ call'.arg = 0)
       => /\ applications' = applications
          /\ db_file' = db_file
          /\ ~last'.wrote
          /\ call'.ret = (IF call'.fn = "delete_application" THEN "False" ELSE NoneVal)]_vars

C17_Witness ==
    /\ call.fn = "delete_application"
    /\ call.arg = 0
    /\ call.ret = "False"
    /\ Len(applications) = 2
    /\ db_file # MissingFile

(***************************************************************************)
(* Claims about the reply to an update                                     *)
(***************************************************************************)
\* C18: a turn replies "Application has been updated successfully." only
\* when update_application found and changed a stored application
C18_UpdatedOnlyWhenFound ==
    (turn.chat /\ LastMessage = "updated")
        => (last.op = "update_application" /\ last.found /\ last.wrote)

(***************************************************************************)
(* Claims about failed research                                            *)
(***************************************************************************)
\* C19: a cache entry is made only of parts that came from successful
\* completions; after a research in which a request failed the cache has no
\* entry for the company
C19_FailedResearchNotCached ==
    /\ \A c \in DOMAIN company_cache :
          /\ company_cache[c].overview = part_text(c, Parts[1], "ok")
          /\ company_cache[c].recent_developments = part_text(c, Parts[2], "ok")
          /\ company_cache[c].culture_and_benefits = part_text(c, Parts[3], "ok")
    /\ (/\ rlast.op = "research_company" /\ rlast.requests > 0
        /\ research.pc = "idle"
        /\ \E i \in TaskIds : research.tasks[i] = "failed")
          => rlast.arg \notin DOMAIN company_cache

====
